---- MODULE Spec2Model ----
(***************************************************************************)
(* EwUtil: interval-gated callbacks (Periodical, PeriodicalBase<T>) and    *)
(* the one-shot / periodic expiry Timer, driven by the free-running        *)
(* millisecond counter millis().                                           *)
(*                                                                         *)
(* The counter is an unsigned integer of ClockBits bits (32 on the target; *)
(* scaled down here so that the overflow from MAX to 0 is reached).        *)
(***************************************************************************)
EXTENDS Integers, Naturals, Sequences, FiniteSets, TLC

\* ------------------------------------------------------------------ bounds
ClockBits  == 3      \* width of unsigned long in the model
MaxTimeout == 2      \* largest timeout / period argument drawn as an input
MaxElapsed == 9      \* the true-elapsed-time observers saturate here
MaxSeconds == 172860 \* largest duration handed to fmtElapsed (two days and a minute)
PeriodBits == 12     \* width of unsigned long where periods are converted
MaxPeriodS == 9      \* largest argument of setPeriodS

Modulus == 2 ^ ClockBits
ClockValues == 0 .. (Modulus - 1)
Timeouts == 0 .. MaxTimeout
Modes == {"OneShot", "Periodic"}

Min(a, b) == IF a < b THEN a ELSE b

\* ------------------------------------------------------------------ state
VARIABLES
  now,           \* the value millis() returns
  timer,         \* a Timer object
  periodical,    \* a Periodical object
  base,          \* a PeriodicalBase<T> object
  op,            \* the operation performed last
  ret,           \* what the last Timer::expired() / Timer::running() returned
  t_since,       \* true ms since the timer was started or last reported
  t_oneShot,     \* OneShot expiries reported since the last start (capped at 2)
  p_calls,       \* invocations of m_func made by the last Periodical::run()
  p_since,       \* true ms since the Periodical was constructed or last fired
  p_hist,        \* "new": never called; "called": called, never fired;
                 \* "first": the only call made so far fired; "fired": otherwise
  b_calls,       \* invocations of task() made by the last PeriodicalBase::run()
  b_since,       \* true ms since the PeriodicalBase was constructed or last fired
  b_hist,        \* as p_hist
  io             \* argument and result of the last call that records them

timerObs == <<ret, t_since, t_oneShot>>
gateObs  == <<p_calls, p_since, p_hist, b_calls, b_since, b_hist>>
vars == <<now, timer, periodical, base, op, ret, t_since, t_oneShot,
          p_calls, p_since, p_hist, b_calls, b_since, b_hist, io>>

\* ------------------------------------------------- unsigned arithmetic
\* now - last on unsigned long: the difference modulo 2^ClockBits
SubNoWrap(a, b) == IF a >= b THEN a - b ELSE 0
Sub(a, b) == (a - b + Modulus) % Modulus

\* ------------------------------------------------------------ Periodical
PeriodicalCtorNow(ms, func) == [m_ms |-> ms, m_prev |-> now, m_func |-> func]
Periodical_ctor(ms, func) == [m_ms |-> ms, m_prev |-> 0, m_func |-> func]

\* the gate: now - m_prev > m_ms
PeriodicalDueGe(p, clk) == Sub(clk, p.m_prev) >= p.m_ms
Periodical_due(p, clk) == Sub(clk, p.m_prev) > p.m_ms

\* run(): the object after the call and the number of m_func invocations
PeriodicalRunTwice(p, clk) ==
  IF p.m_func /\ Periodical_due(p, clk)
    THEN [obj |-> [p EXCEPT !.m_prev = clk], calls |-> 2]
    ELSE [obj |-> p, calls |-> 0]
PeriodicalRunAbsentAdvances(p, clk) ==
  IF Periodical_due(p, clk)
    THEN [obj |-> [p EXCEPT !.m_prev = clk], calls |-> IF p.m_func THEN 1 ELSE 0]
    ELSE [obj |-> p, calls |-> 0]
Periodical_run(p, clk) ==
  IF p.m_func
    THEN IF Periodical_due(p, clk)
           THEN [obj |-> [p EXCEPT !.m_prev = clk], calls |-> 1]
           ELSE [obj |-> p, calls |-> 0]
    ELSE [obj |-> p, calls |-> 0]

\* run() with the behaviour of the action made explicit: the action returns,
\* throws, or calls run() again at the same reading of the counter. seen is
\* the m_prev the action finds when it starts.
Behaviours == {"return", "throw", "reenter"}

PeriodicalRunActionInvokeFirst(p, clk, act) ==
  IF p.m_func /\ Periodical_due(p, clk)
    THEN LET inner == IF act = "reenter" THEN Periodical_run(p, clk)
                                          ELSE [obj |-> p, calls |-> 0]
         IN  [obj |-> IF act = "throw" THEN p ELSE [inner.obj EXCEPT !.m_prev = clk],
              calls |-> 1 + inner.calls, seen |-> p.m_prev, thrown |-> act = "throw"]
    ELSE [obj |-> p, calls |-> 0, seen |-> p.m_prev, thrown |-> FALSE]
Periodical_runAction(p, clk, act) ==
  IF p.m_func /\ Periodical_due(p, clk)
    THEN LET mid == [p EXCEPT !.m_prev = clk]
             inner == IF act = "reenter" THEN Periodical_run(mid, clk)
                                          ELSE [obj |-> mid, calls |-> 0]
         IN  [obj |-> inner.obj, calls |-> 1 + inner.calls,
              seen |-> mid.m_prev, thrown |-> act = "throw"]
    ELSE [obj |-> p, calls |-> 0, seen |-> p.m_prev, thrown |-> FALSE]

\* -------------------------------------------------------- PeriodicalBase
PeriodicalBase_ctor(period_ms) == [m_period_ms |-> period_ms, m_prev |-> 0]

PeriodicalBaseDueGe(b, clk) == Sub(clk, b.m_prev) >= b.m_period_ms
PeriodicalBase_due(b, clk) == Sub(clk, b.m_prev) > b.m_period_ms

PeriodicalBase_run(b, clk) ==
  IF PeriodicalBase_due(b, clk)
    THEN [obj |-> [b EXCEPT !.m_prev = clk], calls |-> 1]
    ELSE [obj |-> b, calls |-> 0]

PeriodicalBase_runAction(b, clk, act) ==
  IF PeriodicalBase_due(b, clk)
    THEN LET mid == [b EXCEPT !.m_prev = clk]
             inner == IF act = "reenter" THEN PeriodicalBase_run(mid, clk)
                                          ELSE [obj |-> mid, calls |-> 0]
         IN  [obj |-> inner.obj, calls |-> 1 + inner.calls,
              seen |-> mid.m_prev, thrown |-> act = "throw"]
    ELSE [obj |-> b, calls |-> 0, seen |-> b.m_prev, thrown |-> FALSE]

\* The period setters and getters. Seconds are multiplied by 1000UL in
\* unsigned long; here the type is PeriodBits wide, so that a few seconds fit
\* and a few more overflow.
PeriodModulus == 2 ^ PeriodBits

PeriodicalBase_setPeriodMs(b, period_ms) == [b EXCEPT !.m_period_ms = period_ms]

PeriodicalBaseSetPeriodSUnscaled(b, period_s) ==
  PeriodicalBase_setPeriodMs(b, period_s % PeriodModulus)
PeriodicalBase_setPeriodS(b, period_s) ==
  PeriodicalBase_setPeriodMs(b, (period_s * 1000) % PeriodModulus)

PeriodicalBase_getPeriodMs(b) == b.m_period_ms

PeriodicalBase_getPeriodS(b) == b.m_period_ms \div 1000

\* ----------------------------------------------------------------- Timer
Timer_ctor(timeout, mode) ==
  [m_mode |-> mode, m_running |-> FALSE, m_timeoutMs |-> timeout, m_timerLastMs |-> 0]

\* the two nested conditions of expired()
TimerDueGe(t, clk) ==
  t.m_running /\ t.m_timeoutMs # 0 /\ Sub(clk, t.m_timerLastMs) >= t.m_timeoutMs
TimerDueIdle(t, clk) ==
  t.m_timeoutMs # 0 /\ Sub(clk, t.m_timerLastMs) > t.m_timeoutMs
TimerDueZero(t, clk) ==
  t.m_running /\ Sub(clk, t.m_timerLastMs) > t.m_timeoutMs
Timer_due(t, clk) ==
  t.m_running /\ t.m_timeoutMs # 0 /\ Sub(clk, t.m_timerLastMs) > t.m_timeoutMs

\* expired(): the object after the call and the value returned
TimerExpiredKeepsRunning(t, clk) ==
  IF Timer_due(t, clk)
    THEN [obj |-> [t EXCEPT !.m_timerLastMs = clk], ret |-> TRUE]
    ELSE [obj |-> t, ret |-> FALSE]
TimerExpiredAccumulates(t, clk) ==
  IF Timer_due(t, clk)
    THEN [obj |-> IF t.m_mode = "OneShot"
                    THEN [t EXCEPT !.m_running = FALSE]
                    ELSE [t EXCEPT !.m_timerLastMs = (t.m_timerLastMs + t.m_timeoutMs) % Modulus],
          ret |-> TRUE]
    ELSE [obj |-> t, ret |-> FALSE]
TimerExpiredNoRebase(t, clk) ==
  IF Timer_due(t, clk)
    THEN [obj |-> IF t.m_mode = "OneShot"
                    THEN [t EXCEPT !.m_running = FALSE]
                    ELSE t,
          ret |-> TRUE]
    ELSE [obj |-> t, ret |-> FALSE]
TimerExpiredPeriodicStops(t, clk) ==
  IF Timer_due(t, clk)
    THEN [obj |-> [t EXCEPT !.m_running = FALSE], ret |-> TRUE]
    ELSE [obj |-> t, ret |-> FALSE]
Timer_expired(t, clk) ==
  IF Timer_due(t, clk)
    THEN [obj |-> IF t.m_mode = "OneShot"
                    THEN [t EXCEPT !.m_running = FALSE]
                    ELSE [t EXCEPT !.m_timerLastMs = clk],
          ret |-> TRUE]
    ELSE [obj |-> t, ret |-> FALSE]

TimerStartKeepsInterval(t, clk, timeoutMs) ==
  [t EXCEPT !.m_timerLastMs = IF t.m_running THEN t.m_timerLastMs ELSE clk,
            !.m_timeoutMs = timeoutMs, !.m_running = TRUE]
Timer_start(t, clk, timeoutMs) ==
  [t EXCEPT !.m_timerLastMs = clk, !.m_timeoutMs = timeoutMs, !.m_running = TRUE]

TimerSetTimeoutDisarms(t, timeoutMs) ==
  [t EXCEPT !.m_timeoutMs = timeoutMs, !.m_running = FALSE]
Timer_setTimeout(t, timeoutMs) == [t EXCEPT !.m_timeoutMs = timeoutMs]

Timer_setMode(t, mode) == [t EXCEPT !.m_mode = mode]

TimerStopClears(t) == [t EXCEPT !.m_running = FALSE, !.m_timerLastMs = 0]
Timer_stop(t) == [t EXCEPT !.m_running = FALSE]

Timer_running(t) == t.m_running

\* ------------------------------------------------------------ fmtElapsed
SECS_PER_MIN == 60
SECS_PER_HOUR == 3600
SECS_PER_DAY == SECS_PER_HOUR * 24

numberOfSeconds(seconds) == seconds % SECS_PER_MIN

numberOfMinutes(seconds) == (seconds \div SECS_PER_MIN) % SECS_PER_MIN

NumberOfHoursNoMod(seconds) == seconds \div SECS_PER_HOUR
numberOfHours(seconds) == (seconds % SECS_PER_DAY) \div SECS_PER_HOUR

numberOfDays(seconds) == seconds \div SECS_PER_DAY

\* fmtElapsed(): the template handed to prtFmt and its arguments
FmtElapsedHoursFirst(seconds, all) ==
  LET d == numberOfDays(seconds)
      h == numberOfHours(seconds)
      m == numberOfMinutes(seconds)
      s == numberOfSeconds(seconds)
  IN  IF h # 0 THEN [fmt |-> "fmth", args |-> <<h, m, s>>]
      ELSE IF d # 0 \/ all THEN [fmt |-> "fmtd", args |-> <<d, h, m, s>>]
      ELSE IF m # 0 THEN [fmt |-> "fmtm", args |-> <<m, s>>]
      ELSE [fmt |-> "fmts", args |-> <<s>>]
fmtElapsed(seconds, all) ==
  LET d == numberOfDays(seconds)
      h == numberOfHours(seconds)
      m == numberOfMinutes(seconds)
      s == numberOfSeconds(seconds)
  IN  IF d # 0 \/ all THEN [fmt |-> "fmtd", args |-> <<d, h, m, s>>]
      ELSE IF h # 0 THEN [fmt |-> "fmth", args |-> <<h, m, s>>]
      ELSE IF m # 0 THEN [fmt |-> "fmtm", args |-> <<m, s>>]
      ELSE [fmt |-> "fmts", args |-> <<s>>]

\* --------------------------------------------------------------- initial
NoIo == [kind |-> "none"]

\* The three objects are constructed at an arbitrary value of the counter.
Init ==
  /\ now \in ClockValues
  /\ timer \in {Timer_ctor(to, m) : to \in Timeouts, m \in Modes}
  /\ periodical \in {Periodical_ctor(ms, f) : ms \in Timeouts, f \in BOOLEAN}
  /\ base \in {PeriodicalBase_ctor(ms) : ms \in Timeouts}
  /\ op = "ctor"
  /\ ret = FALSE
  /\ t_since = 0
  /\ t_oneShot = 0
  /\ p_calls = 0 /\ p_since = 0 /\ p_hist = "new"
  /\ b_calls = 0 /\ b_since = 0 /\ b_hist = "new"
  /\ io = NoIo

\* Only the Timer is configured; the gates are fixed.
TimerInit ==
  /\ Init
  /\ periodical = Periodical_ctor(0, FALSE)
  /\ base = PeriodicalBase_ctor(0)

\* Only the gates are configured; the Timer is fixed.
GateInit ==
  /\ Init
  /\ timer = Timer_ctor(0, "OneShot")

\* ----------------------------------------------------------------- clock
Bump(n) == Min(n + 1, MaxElapsed)

\* millis() advances by one, wrapping from MAX to 0
ClockStep ==
  /\ now' = (now + 1) % Modulus
  /\ op' = "tick"
  /\ UNCHANGED <<timer, periodical, base, ret, t_oneShot>>
  /\ UNCHANGED <<p_calls, p_hist, b_calls, b_hist, io>>

TimerClock == t_since' = IF timer.m_running THEN Bump(t_since) ELSE 0

\* The elapsed-time observers of the objects a specification does not drive
\* are left alone.
Tick ==
  /\ ClockStep
  /\ TimerClock
  /\ p_since' = Bump(p_since)
  /\ UNCHANGED b_since

TickTimer ==
  /\ ClockStep
  /\ TimerClock
  /\ UNCHANGED <<p_since, b_since>>

TickGates ==
  /\ ClockStep
  /\ p_since' = Bump(p_since)
  /\ b_since' = Bump(b_since)
  /\ UNCHANGED t_since

\* ----------------------------------------------------------------- gates
History(h, calls) ==
  IF calls > 0
    THEN (IF h = "new" THEN "first" ELSE "fired")
    ELSE (IF h = "new" THEN "called" ELSE IF h = "first" THEN "fired" ELSE h)

CallPeriodical ==
  LET r == Periodical_run(periodical, now) IN
  /\ periodical' = r.obj
  /\ p_calls' = r.calls
  /\ p_since' = IF r.calls > 0 THEN 0 ELSE p_since
  /\ p_hist' = History(p_hist, r.calls)
  /\ op' = "Periodical"
  /\ UNCHANGED <<now, timer, base, b_calls, b_since, b_hist>>
  /\ UNCHANGED timerObs
  /\ UNCHANGED io

CallPeriodicalBase ==
  LET r == PeriodicalBase_run(base, now) IN
  /\ base' = r.obj
  /\ b_calls' = r.calls
  /\ b_since' = IF r.calls > 0 THEN 0 ELSE b_since
  /\ b_hist' = History(b_hist, r.calls)
  /\ op' = "PeriodicalBase"
  /\ UNCHANGED <<now, timer, periodical, p_calls, p_since, p_hist>>
  /\ UNCHANGED timerObs
  /\ UNCHANGED io

\* ----------------------------------------------------------------- timer
TimerExpired ==
  LET r == Timer_expired(timer, now) IN
  /\ timer' = r.obj
  /\ ret' = r.ret
  /\ t_since' = IF r.ret THEN 0 ELSE t_since
  /\ t_oneShot' = IF r.ret /\ timer.m_mode = "OneShot" THEN Min(t_oneShot + 1, 2) ELSE t_oneShot
  /\ op' = "expired"
  /\ UNCHANGED <<now, periodical, base>>
  /\ UNCHANGED gateObs
  /\ UNCHANGED io

\* start(void): start(m_timeoutMs)
TimerStart ==
  /\ timer' = Timer_start(timer, now, timer.m_timeoutMs)
  /\ t_since' = 0
  /\ t_oneShot' = 0
  /\ op' = "start"
  /\ UNCHANGED <<now, periodical, base, ret>>
  /\ UNCHANGED gateObs
  /\ UNCHANGED io

TimerStartMs ==
  \E ms \in Timeouts :
    /\ timer' = Timer_start(timer, now, ms)
    /\ t_since' = 0
    /\ t_oneShot' = 0
    /\ op' = "startMs"
    /\ io' = [kind |-> "startMs", arg |-> ms, armed |-> timer.m_running]
    /\ UNCHANGED <<now, periodical, base, ret>>
    /\ UNCHANGED gateObs

TimerSetTimeout ==
  \E ms \in Timeouts :
    /\ timer' = Timer_setTimeout(timer, ms)
    /\ op' = "setTimeout"
    /\ UNCHANGED <<now, periodical, base, ret, t_since, t_oneShot>>
    /\ UNCHANGED gateObs
    /\ UNCHANGED io

TimerSetMode ==
  \E m \in Modes :
    /\ timer' = Timer_setMode(timer, m)
    /\ op' = "setMode"
    /\ UNCHANGED <<now, periodical, base, ret, t_since, t_oneShot>>
    /\ UNCHANGED gateObs
    /\ UNCHANGED io

TimerStop ==
  /\ timer' = Timer_stop(timer)
  /\ t_since' = 0
  /\ op' = "stop"
  /\ UNCHANGED <<now, periodical, base, ret, t_oneShot>>
  /\ UNCHANGED gateObs
  /\ UNCHANGED io

TimerRunning ==
  /\ ret' = Timer_running(timer)
  /\ op' = "running"
  /\ UNCHANGED <<now, timer, periodical, base, t_since, t_oneShot>>
  /\ UNCHANGED gateObs
  /\ UNCHANGED io

\* ------------------------------------------------------------ formatter
\* A caller holds a duration and a flag and calls fmtElapsed on them.
FmtInit ==
  /\ now = 0
  /\ timer = Timer_ctor(0, "OneShot")
  /\ periodical = Periodical_ctor(0, FALSE)
  /\ base = PeriodicalBase_ctor(0)
  /\ op = "ctor"
  /\ ret = FALSE
  /\ t_since = 0
  /\ t_oneShot = 0
  /\ p_calls = 0 /\ p_since = 0 /\ p_hist = "new"
  /\ b_calls = 0 /\ b_since = 0 /\ b_hist = "new"
  /\ io \in {[kind |-> "fmtIn", seconds |-> sec, all |-> a] :
                sec \in 0 .. MaxSeconds, a \in BOOLEAN}

FmtElapsed ==
  /\ io.kind = "fmtIn"
  /\ io' = [kind |-> "fmtOut", seconds |-> io.seconds, all |-> io.all,
            out |-> fmtElapsed(io.seconds, io.all)]
  /\ op' = "fmtElapsed"
  /\ UNCHANGED <<now, timer, periodical, base>>
  /\ UNCHANGED timerObs
  /\ UNCHANGED gateObs

FmtNext == FmtElapsed

FmtSpec == FmtInit /\ [][FmtNext]_vars

\* ---------------------------------------------------- period conversion
PeriodMsArgs == {0, 1, 999, 1000, 1001, 1999, 2000, PeriodModulus - 1}
PeriodSArgs == 0 .. MaxPeriodS

\* A PeriodicalBase that last fired at some clock value or never.
PeriodInit ==
  /\ now \in ClockValues
  /\ timer = Timer_ctor(0, "OneShot")
  /\ periodical = Periodical_ctor(0, FALSE)
  /\ base \in {[PeriodicalBase_ctor(ms) EXCEPT !.m_prev = prev] :
                  ms \in PeriodMsArgs, prev \in ClockValues}
  /\ op = "ctor"
  /\ ret = FALSE
  /\ t_since = 0
  /\ t_oneShot = 0
  /\ p_calls = 0 /\ p_since = 0 /\ p_hist = "new"
  /\ b_calls = 0 /\ b_since = 0 /\ b_hist = "new"
  /\ io = [kind |-> "ctor", setter |-> "ctor", arg |-> base.m_period_ms, got |-> 0]

PeriodFrame ==
  /\ UNCHANGED <<now, timer, periodical>>
  /\ UNCHANGED timerObs
  /\ UNCHANGED gateObs

SetPeriodMs ==
  \E ms \in PeriodMsArgs :
    /\ base' = PeriodicalBase_setPeriodMs(base, ms)
    /\ io' = [kind |-> "setPeriodMs", setter |-> "setPeriodMs", arg |-> ms, got |-> 0]
    /\ op' = "setPeriodMs"
    /\ PeriodFrame

SetPeriodS ==
  \E sec \in PeriodSArgs :
    /\ base' = PeriodicalBase_setPeriodS(base, sec)
    /\ io' = [kind |-> "setPeriodS", setter |-> "setPeriodS", arg |-> sec, got |-> 0]
    /\ op' = "setPeriodS"
    /\ PeriodFrame

GetPeriodMs ==
  /\ io' = [io EXCEPT !.kind = "getPeriodMs", !.got = PeriodicalBase_getPeriodMs(base)]
  /\ op' = "getPeriodMs"
  /\ UNCHANGED base
  /\ PeriodFrame

GetPeriodS ==
  /\ io' = [io EXCEPT !.kind = "getPeriodS", !.got = PeriodicalBase_getPeriodS(base)]
  /\ op' = "getPeriodS"
  /\ UNCHANGED base
  /\ PeriodFrame

PeriodNext ==
  \/ SetPeriodMs
  \/ SetPeriodS
  \/ GetPeriodMs
  \/ GetPeriodS

PeriodSpec == PeriodInit /\ [][PeriodNext]_vars

\* ------------------------------------------------------------- one loop
\* Both gates constructed with the same period and called from the same loop
\* iteration, at the same reading of the counter.
LoopInit ==
  /\ GateInit
  /\ periodical.m_func
  /\ periodical.m_ms = base.m_period_ms

CallBoth ==
  LET rp == Periodical_run(periodical, now)
      rb == PeriodicalBase_run(base, now)
  IN  /\ periodical' = rp.obj
      /\ p_calls' = rp.calls
      /\ p_since' = IF rp.calls > 0 THEN 0 ELSE p_since
      /\ p_hist' = History(p_hist, rp.calls)
      /\ base' = rb.obj
      /\ b_calls' = rb.calls
      /\ b_since' = IF rb.calls > 0 THEN 0 ELSE b_since
      /\ b_hist' = History(b_hist, rb.calls)
      /\ op' = "loop"
      /\ UNCHANGED <<now, timer, io>>
      /\ UNCHANGED timerObs

LoopNext ==
  \/ TickGates
  \/ CallBoth

LoopSpec == LoopInit /\ [][LoopNext]_vars

\* --------------------------------------------------- actions that act
ActionInit ==
  /\ GateInit
  /\ periodical.m_func

CallPeriodicalAction ==
  \E act \in Behaviours :
    LET r == Periodical_runAction(periodical, now, act) IN
    /\ periodical' = r.obj
    /\ p_calls' = r.calls
    /\ io' = IF r.calls > 0
               THEN [kind |-> "action", act |-> act, seen |-> r.seen, thrown |-> r.thrown]
               ELSE NoIo
    /\ op' = "PeriodicalAct"
    /\ UNCHANGED <<now, timer, base, p_since, p_hist, b_calls, b_since, b_hist>>
    /\ UNCHANGED timerObs

CallPeriodicalBaseAction ==
  \E act \in Behaviours :
    LET r == PeriodicalBase_runAction(base, now, act) IN
    /\ base' = r.obj
    /\ b_calls' = r.calls
    /\ io' = IF r.calls > 0
               THEN [kind |-> "action", act |-> act, seen |-> r.seen, thrown |-> r.thrown]
               ELSE NoIo
    /\ op' = "PeriodicalBaseAct"
    /\ UNCHANGED <<now, timer, periodical, p_calls, p_since, p_hist, b_since, b_hist>>
    /\ UNCHANGED timerObs

\* The statement order inside one call is what is observed here; the
\* elapsed-time and history observers of the gates are left alone.
ActionNext ==
  \/ TickTimer
  \/ CallPeriodicalAction
  \/ CallPeriodicalBaseAction

ActionSpec == ActionInit /\ [][ActionNext]_vars

\* ------------------------------------------- a timer started once, polled
\* start(ms) is called once on the new timer, with any timeout above zero.
LiveArm ==
  /\ op = "ctor"
  /\ \E ms \in ClockValues \ {0} :
       /\ timer' = Timer_start(timer, now, ms)
       /\ io' = [kind |-> "arm", arg |-> ms, at |-> now]
  /\ t_since' = 0
  /\ t_oneShot' = 0
  /\ op' = "startMs"
  /\ UNCHANGED <<now, periodical, base, ret>>
  /\ UNCHANGED gateObs

\* expired() is called once at every value of millis()
LivePoll ==
  /\ op \in {"startMs", "tick"}
  /\ TimerExpired

LiveAdvance ==
  /\ op = "expired"
  /\ TickTimer

LiveNext ==
  \/ LiveArm
  \/ LivePoll
  \/ LiveAdvance

\* the loop never stops: millis() keeps advancing and every value is polled
LiveSpec == TimerInit /\ [][LiveNext]_vars /\ WF_vars(LiveNext)

\* ------------------------------------------------------- specifications
TimerNext ==
  \/ TickTimer
  \/ TimerExpired
  \/ TimerStart
  \/ TimerStartMs
  \/ TimerSetTimeout
  \/ TimerSetMode
  \/ TimerStop
  \/ TimerRunning

GateNext ==
  \/ TickGates
  \/ CallPeriodical
  \/ CallPeriodicalBase

TimerSpec == TimerInit /\ [][TimerNext]_vars
GateSpec == GateInit /\ [][GateNext]_vars

\* The Timer and the Periodical polled from one loop against the same counter.
WrapInit ==
  /\ Init
  /\ periodical.m_func
  /\ base = PeriodicalBase_ctor(0)

WrapNext ==
  \/ Tick
  \/ TimerStart
  \/ TimerExpired
  \/ CallPeriodical

WrapSpec == WrapInit /\ [][WrapNext]_vars

\* ================================================================ claims
\* the true elapsed time is known exactly below this value
Exact == Min(MaxElapsed, Modulus)

\* an expired() call on a running timer with a non-zero timeout whose true
\* elapsed time since start (or since the last report) is known
PollArmed ==
  /\ op' = "expired"
  /\ timer.m_running
  /\ timer.m_timeoutMs > 0
  /\ t_since < MaxElapsed

\* C1 (as stated): after start(T), T > 0, expired() returns false while the
\* elapsed time modulo the counter width is below T and true once it is at
\* or after T.
C1_AtOrAfter ==
  [][PollArmed => (ret' = ((t_since % Modulus) >= timer.m_timeoutMs))]_vars

\* C1 (amended): after start(T), T > 0, expired() returns false while the
\* elapsed time modulo the counter width is at most T, and true on the first
\* query made when it is strictly greater than T.
C1_StrictlyAfter ==
  [][PollArmed => (ret' = ((t_since % Modulus) > timer.m_timeoutMs))]_vars

\* a OneShot timer that has just reported, queried exactly T + 1 ms after start
C1_Witness ==
  /\ op = "expired" /\ ret
  /\ timer.m_mode = "OneShot" /\ ~timer.m_running
  /\ timer.m_timeoutMs > 0
  /\ Sub(now, timer.m_timerLastMs) = timer.m_timeoutMs + 1

\* C2 (as stated): the reports made by an expired() call number exactly the
\* intervals of length timeout that have fully elapsed since the last report
\* (or since start), also when several elapsed between two polls.
C2_OncePerInterval ==
  [][PollArmed =>
       ((IF ret' THEN 1 ELSE 0) = (t_since \div timer.m_timeoutMs))]_vars

\* C2 (amended): an expired() call reports at most once, and only when more
\* than one timeout has elapsed since the last report (or start); whenever the
\* elapsed time modulo the counter width exceeds the timeout it reports once,
\* however many intervals have elapsed, and the measurement restarts from that
\* call. The reports never outnumber the fully elapsed intervals.
C2_AtMostOncePerInterval ==
  [][PollArmed =>
       /\ (ret' => (t_since \div timer.m_timeoutMs) >= 1)
       /\ (ret' => t_since > timer.m_timeoutMs)
       /\ ((t_since % Modulus) \div timer.m_timeoutMs >= 2 => ret')
       /\ (ret' => t_since' = 0)]_vars

\* a poll made after two or more whole intervals elapsed: a single report
C2_Witness ==
  /\ op = "expired" /\ ret
  /\ timer.m_mode = "OneShot" /\ ~timer.m_running
  /\ t_oneShot = 1
  /\ timer.m_timeoutMs > 0
  /\ Sub(now, timer.m_timerLastMs) >= 2 * timer.m_timeoutMs

\* C3: on a timer that is not running, expired() returns false and changes
\* no field of the timer, whatever the clock, timeout and mode; running()
\* changes no field either.
C3_IdleNeverExpires ==
  [][/\ (op' = "expired" /\ ~timer.m_running => ~ret' /\ timer' = timer)
     /\ (op' = "running" => timer' = timer /\ ret' = timer.m_running)]_vars

\* an idle timer queried with more than its non-zero timeout on the clock
C3_Witness ==
  /\ op = "expired" /\ ~ret
  /\ ~timer.m_running
  /\ t_oneShot = 0
  /\ timer.m_timeoutMs > 0
  /\ Sub(now, timer.m_timerLastMs) > timer.m_timeoutMs

\* C4: in OneShot mode the expired() call that returns true clears running;
\* every later expired() call returns false until start(), so at most one
\* OneShot report is made between two start() calls.
C4_OneShotOnce ==
  [][/\ (op' = "expired" /\ ret' /\ timer.m_mode = "OneShot"
           => ~timer'.m_running)
     /\ (op' = "expired" /\ t_oneShot >= 1 => ~ret')
     /\ (op' \in {"expired", "running"} /\ t_oneShot >= 1 => ~timer'.m_running)
     /\ t_oneShot' <= 1]_vars

\* a OneShot timer polled again after its report, the clock far past timeout
C4_Witness ==
  /\ op = "expired" /\ ~ret
  /\ t_oneShot = 1
  /\ ~timer.m_running
  /\ timer.m_mode = "OneShot"
  /\ timer.m_timeoutMs > 0
  /\ Sub(now, timer.m_timerLastMs) > timer.m_timeoutMs + 1

\* C5: in Periodic mode the expired() call that returns true leaves running
\* true and sets started_at to the clock value of that call; later calls
\* return false until more than timeout has elapsed from there.
C5_PeriodicRebase ==
  [][op' = "expired" /\ timer.m_mode = "Periodic" /\ timer.m_running =>
       /\ (ret' => timer' = [timer EXCEPT !.m_timerLastMs = now])
       /\ (t_since <= timer.m_timeoutMs => ~ret' /\ timer' = timer)]_vars

\* a Periodic report made late: started_at is the clock of the call
C5_Witness ==
  /\ op = "expired" /\ ret
  /\ timer.m_mode = "Periodic" /\ timer.m_running
  /\ timer.m_timerLastMs = now
  /\ t_since = 0
  /\ timer.m_timeoutMs > 1

\* C6: a running timer with timeout 0 never reports: expired() returns false
\* and changes nothing; setTimeout() leaves running and started_at alone, so
\* with a non-zero timeout expiry is again (now - started_at) > timeout.
C6_ZeroNeverExpires ==
  [][/\ (op' = "expired" /\ timer.m_running /\ timer.m_timeoutMs = 0
           => ~ret' /\ timer' = timer)
     /\ (op' = "setTimeout"
           => /\ timer'.m_running = timer.m_running
              /\ timer'.m_timerLastMs = timer.m_timerLastMs
              /\ timer'.m_mode = timer.m_mode)
     /\ (op' = "expired" /\ timer.m_running /\ timer.m_timeoutMs # 0
           => ret' = (Sub(now, timer.m_timerLastMs) > timer.m_timeoutMs))]_vars

\* a running timer with timeout 0 queried after time has passed
C6_Witness ==
  /\ op = "expired" /\ ~ret
  /\ timer.m_running
  /\ timer.m_timeoutMs = 0
  /\ t_since > 0

\* C7: a call of a gate with an action present invokes the action once if
\* (now - last_fired) mod 2^W > period and not at all otherwise; when it
\* fires last_fired becomes now, otherwise the object is unchanged.
C7_GateFiresOncePerCall ==
  [][/\ (op' = "Periodical" /\ periodical.m_func =>
           IF Sub(now, periodical.m_prev) > periodical.m_ms
             THEN p_calls' = 1 /\ periodical' = [periodical EXCEPT !.m_prev = now]
             ELSE p_calls' = 0 /\ periodical' = periodical)
     /\ (op' = "PeriodicalBase" =>
           IF Sub(now, base.m_prev) > base.m_period_ms
             THEN b_calls' = 1 /\ base' = [base EXCEPT !.m_prev = now]
             ELSE b_calls' = 0 /\ base' = base)]_vars

\* both gates have just fired at the current clock value
C7_Witness ==
  /\ op = "Periodical"
  /\ p_calls = 1 /\ periodical.m_func /\ periodical.m_prev = now
  /\ b_calls = 1 /\ base.m_prev = now

\* the first call of a gate with period > 0, the time since construction known
FirstCallPeriodical ==
  /\ op' = "Periodical"
  /\ p_hist = "new"
  /\ periodical.m_func
  /\ periodical.m_ms > 0
  /\ p_since < Exact

FirstCallBase ==
  /\ op' = "PeriodicalBase"
  /\ b_hist = "new"
  /\ base.m_period_ms > 0
  /\ b_since < Exact

\* C8 (as stated): for period_ms > 0 a gate fires on its first call iff the
\* time elapsed since its construction exceeds period_ms.
C8_SinceConstruction ==
  [][/\ (FirstCallPeriodical => ((p_calls' = 1) = (p_since > periodical.m_ms)))
     /\ (FirstCallBase => ((b_calls' = 1) = (b_since > base.m_period_ms)))]_vars

\* C8 (amended): for period_ms > 0 a gate fires on its first call iff the
\* clock value at that call exceeds period_ms: last_fired starts at 0, so the
\* elapsed time is measured from clock value 0, not from the construction.
C8_SinceClockZero ==
  [][/\ (FirstCallPeriodical => ((p_calls' = 1) = (now > periodical.m_ms)))
     /\ (FirstCallBase => ((b_calls' = 1) = (now > base.m_period_ms)))]_vars

\* both gates fired on a first call made right after construction
C8_Witness ==
  /\ p_hist = "first" /\ periodical.m_ms > 0
  /\ b_hist = "first" /\ base.m_period_ms > 0
  /\ p_since + b_since <= 1

\* C9: with a fixed period_ms > 0 two consecutive firings of a gate are more
\* than period_ms apart, both modulo the counter width and in true time.
C9_FiringsApart ==
  [][/\ (op' = "Periodical" /\ p_calls' >= 1 /\ p_hist \in {"first", "fired"}
           /\ periodical.m_ms > 0
           => /\ p_since > periodical.m_ms
              /\ (p_since < Exact => p_since % Modulus > periodical.m_ms))
     /\ (op' = "PeriodicalBase" /\ b_calls' >= 1 /\ b_hist \in {"first", "fired"}
           /\ base.m_period_ms > 0
           => /\ b_since > base.m_period_ms
              /\ (b_since < Exact => b_since % Modulus > base.m_period_ms))]_vars

\* both gates have fired a second time
C9_Witness ==
  /\ p_hist = "fired" /\ p_calls = 1 /\ periodical.m_ms > 0
  /\ b_hist = "fired" /\ b_calls = 1 /\ base.m_period_ms > 0

\* the unsigned difference is the true elapsed time while that is below 2^W
ElapsedIsExact ==
  /\ (timer'.m_running /\ t_since' < Exact
        => Sub(now', timer'.m_timerLastMs) = t_since')
  /\ (p_hist' \in {"first", "fired"} /\ p_since' < Exact
        => Sub(now', periodical'.m_prev) = p_since')
  /\ (op' = "expired" /\ timer.m_running /\ timer.m_timeoutMs > 0 /\ t_since < Exact
        => ret' = (t_since > timer.m_timeoutMs))

\* C10 (as stated): a gate constructed just before the overflow (at clock
\* value now - p_since, above now) and checked just after fires exactly when
\* the true elapsed time exceeds its period; gate and Timer compute the true
\* elapsed time while it is below 2^W.
C10_WrapSinceConstruction ==
  [][/\ ElapsedIsExact
     /\ (op' = "Periodical" /\ periodical.m_func /\ p_since < Exact
           /\ (p_hist \in {"new", "called"} => Sub(now, p_since) > now)
           => ((p_calls' = 1) = (p_since > periodical.m_ms)))]_vars

\* C10 (amended): a gate that fired just before the overflow and is checked
\* just after fires exactly when the true time elapsed since that firing
\* exceeds its period; a gate that has not fired yet measures from clock
\* value 0 (the initial last_fired), not from its construction. Gate and
\* Timer compute the true elapsed time while it is below 2^W.
C10_WrapSinceLastFired ==
  [][/\ ElapsedIsExact
     /\ (op' = "Periodical" /\ periodical.m_func /\ p_since < Exact
           => ((p_calls' = 1) =
                 IF p_hist \in {"first", "fired"}
                   THEN p_since > periodical.m_ms
                   ELSE now > periodical.m_ms))]_vars

\* the counter has wrapped past started_at and last_fired: the OneShot timer
\* has just reported, the gate was called since its last firing and is not due
C10_Witness ==
  /\ op = "expired" /\ ret
  /\ timer.m_mode = "OneShot"
  /\ now < timer.m_timerLastMs
  /\ p_hist = "fired" /\ periodical.m_func
  /\ now < periodical.m_prev
  /\ p_calls = 0
  /\ p_since = Sub(now, periodical.m_prev)
  /\ p_since <= periodical.m_ms

\* C11: calling a Periodical that has no action invokes nothing and leaves
\* last_fired and period unchanged, also when the period has elapsed.
C11_AbsentActionNoOp ==
  [][op' = "Periodical" /\ ~periodical.m_func
       => p_calls' = 0 /\ periodical' = periodical]_vars

\* a Periodical without action called with more than its period elapsed
C11_Witness ==
  /\ op = "Periodical"
  /\ ~periodical.m_func
  /\ p_calls = 0 /\ p_hist = "called"
  /\ Sub(now, periodical.m_prev) > periodical.m_ms

\* C12: stop() clears running and changes nothing else; on an idle timer it
\* changes nothing, so stop(); stop() leaves the timer as stop() does.
C12_StopIdempotent ==
  [][op' = "stop"
       => /\ timer' = [timer EXCEPT !.m_running = FALSE]
          /\ (~timer.m_running => timer' = timer)
          /\ Timer_stop(timer') = timer']_vars

\* an armed Periodic timer stopped after it was started at a non-zero clock
C12_Witness ==
  /\ op = "stop"
  /\ ~timer.m_running
  /\ timer.m_mode = "Periodic"
  /\ timer.m_timeoutMs > 0
  /\ timer.m_timerLastMs > 0

\* setTimeout() and setMode() change one field each
ConfigFrame ==
  /\ (op' = "setTimeout"
        => \E ms \in Timeouts : timer' = [timer EXCEPT !.m_timeoutMs = ms])
  /\ (op' = "setMode"
        => \E m \in Modes : timer' = [timer EXCEPT !.m_mode = m])

\* C13 (as stated): setTimeout() and setMode() never change running or
\* started_at; the expired() call after a setTimeout() on an armed timer
\* returns true if the timeout is now below the elapsed time, false otherwise.
C13_Retroactive ==
  [][/\ ConfigFrame
     /\ (op = "setTimeout" /\ op' = "expired" /\ timer.m_running /\ t_since < Exact
           => ret' = (t_since > timer.m_timeoutMs))]_vars

\* C13 (amended): setTimeout() and setMode() never change running or
\* started_at; the expired() call after a setTimeout() on an armed timer
\* returns true if the timeout is now non-zero and below the elapsed time,
\* false if it is zero or not below the elapsed time.
C13_RetroactiveNonZero ==
  [][/\ ConfigFrame
     /\ (op = "setTimeout" /\ op' = "expired" /\ timer.m_running /\ t_since < Exact
           => ret' = (timer.m_timeoutMs # 0 /\ t_since > timer.m_timeoutMs))]_vars

\* an armed timer whose timeout was just set to a non-zero value below the
\* elapsed time
C13_Witness ==
  /\ op = "setTimeout"
  /\ timer.m_running
  /\ timer.m_timeoutMs > 0
  /\ t_since > timer.m_timeoutMs /\ t_since < Exact

\* C14: start() leaves the timer running with started_at = now and the mode
\* unchanged; start() keeps the timeout, start(t) sets it to t; on an armed
\* timer the elapsed part of the interval is discarded.
C14_StartArms ==
  [][/\ (op' = "start"
           => timer' = [timer EXCEPT !.m_running = TRUE, !.m_timerLastMs = now])
     /\ (op' = "startMs"
           => timer' = [timer EXCEPT !.m_running = TRUE, !.m_timerLastMs = now,
                                     !.m_timeoutMs = io'.arg])
     /\ (op' \in {"start", "startMs"} => Sub(now', timer'.m_timerLastMs) = 0)]_vars

\* start(t) called on a timer that was armed already
C14_Witness ==
  /\ op = "startMs"
  /\ io = [kind |-> "startMs", arg |-> timer.m_timeoutMs, armed |-> TRUE]
  /\ timer.m_running
  /\ timer.m_timerLastMs = now /\ now > 0
  /\ t_since = 0

\* C15: fmtElapsed picks the day template if all is set or seconds >= 86400,
\* else the hour template if seconds >= 3600, else the minute template if
\* seconds >= 60, else the seconds template, each with its components in
\* descending order.
C15_TemplateSelection ==
  io.kind = "fmtOut" =>
    LET sec == io.seconds
        d == numberOfDays(sec)
        h == numberOfHours(sec)
        m == numberOfMinutes(sec)
        s == numberOfSeconds(sec)
    IN  /\ io.out.fmt = (IF io.all \/ sec >= 86400 THEN "fmtd"
                         ELSE IF sec >= 3600 THEN "fmth"
                         ELSE IF sec >= 60 THEN "fmtm"
                         ELSE "fmts")
        /\ (io.out.fmt = "fmtd") = (io.all \/ d > 0)
        /\ (io.out.fmt = "fmth") = (~io.all /\ d = 0 /\ h > 0)
        /\ (io.out.fmt = "fmtm") = (~io.all /\ d = 0 /\ h = 0 /\ m > 0)
        /\ io.out.args = (CASE io.out.fmt = "fmtd" -> <<d, h, m, s>>
                            [] io.out.fmt = "fmth" -> <<h, m, s>>
                            [] io.out.fmt = "fmtm" -> <<m, s>>
                            [] OTHER -> <<s>>)

\* 90000 s without the flag: the day template with 1 d 1 h 0 m 0 s
C15_Witness ==
  /\ io.kind = "fmtOut"
  /\ io.seconds = 90000 /\ ~io.all
  /\ io.out = [fmt |-> "fmtd", args |-> <<1, 1, 0, 0>>]

\* C16: hours from (seconds mod 86400) / 3600 equals the residual
\* (seconds - days * 86400) / 3600, and days * 86400 + hours * 3600 +
\* minutes * 60 + remainder = seconds with hours < 24, minutes < 60,
\* remainder < 60.
C16_Decomposition ==
  io.kind = "fmtOut" /\ io.out.fmt = "fmtd" =>
    LET sec == io.seconds
        d == io.out.args[1]
        h == io.out.args[2]
        m == io.out.args[3]
        s == io.out.args[4]
    IN  /\ h = (sec - d * 86400) \div 3600
        /\ d * 86400 + h * 3600 + m * 60 + s = sec
        /\ h < 24 /\ m < 60 /\ s < 60

\* the last second of the second day, decomposed
C16_Witness ==
  /\ io.kind = "fmtOut"
  /\ io.seconds = 172799
  /\ io.out = [fmt |-> "fmtd", args |-> <<1, 23, 59, 59>>]

\* the setters change the period only
SettersKeepLastFired ==
  op' \in {"setPeriodMs", "setPeriodS"}
    => base' = [base EXCEPT !.m_period_ms = base'.m_period_ms]

\* what the getters return after setPeriodMs(p)
AfterSetPeriodMs ==
  io'.setter = "setPeriodMs" =>
    /\ (op' = "getPeriodMs" => io'.got = io'.arg)
    /\ (op' = "getPeriodS" => io'.got = io'.arg \div 1000)

\* C17 (as stated): after setPeriodS(s) getPeriodMs() = s * 1000 and
\* getPeriodS() = s for every s; after setPeriodMs(p) getPeriodMs() = p and
\* getPeriodS() = floor(p / 1000); the setters never change last_fired.
C17_SecondsTimesThousand ==
  [][/\ SettersKeepLastFired
     /\ AfterSetPeriodMs
     /\ (io'.setter = "setPeriodS" =>
           /\ (op' = "getPeriodMs" => io'.got = io'.arg * 1000)
           /\ (op' = "getPeriodS" => io'.got = io'.arg))]_vars

\* C17 (amended): after setPeriodS(s) getPeriodMs() = (s * 1000) mod 2^W and
\* getPeriodS() = floor(((s * 1000) mod 2^W) / 1000), which are s * 1000 and
\* s exactly when s * 1000 < 2^W; after setPeriodMs(p) getPeriodMs() = p and
\* getPeriodS() = floor(p / 1000); the setters never change last_fired.
C17_SecondsTimesThousandModulo ==
  [][/\ SettersKeepLastFired
     /\ AfterSetPeriodMs
     /\ (io'.setter = "setPeriodS" =>
           LET ms == (io'.arg * 1000) % PeriodModulus IN
           /\ (op' = "getPeriodMs" => io'.got = ms)
           /\ (op' = "getPeriodS" => io'.got = ms \div 1000)
           /\ (io'.arg * 1000 < PeriodModulus =>
                 /\ (op' = "getPeriodMs" => io'.got = io'.arg * 1000)
                 /\ (op' = "getPeriodS" => io'.got = io'.arg)))]_vars

\* setPeriodS(3) read back in seconds on a gate that had fired before
C17_Witness ==
  /\ op = "getPeriodS"
  /\ io = [kind |-> "getPeriodS", setter |-> "setPeriodS", arg |-> 3, got |-> 3]
  /\ base.m_period_ms = 3000
  /\ base.m_prev > 0

\* C18: a Periodical with an action and a PeriodicalBase, constructed with the
\* same period and called at the same clock readings, fire on the same calls
\* and hold equal last_fired values after every call.
C18_SameGate ==
  /\ p_calls = b_calls
  /\ periodical.m_prev = base.m_prev
  /\ p_hist = b_hist
  /\ p_since = b_since

\* both gates have fired together for the second time at least
C18_Witness ==
  /\ op = "loop"
  /\ p_calls = 1 /\ b_calls = 1
  /\ p_hist = "fired" /\ b_hist = "fired"
  /\ periodical.m_prev = now /\ base.m_prev = now
  /\ periodical.m_ms > 0

\* C19: when a gate fires, last_fired is already the clock value of the call
\* when the action starts; it stays so if the action throws, and an action
\* that calls the gate again at the same clock value does not fire again.
C19_LastFiredFirst ==
  [][/\ (op' = "PeriodicalAct" /\ p_calls' >= 1
           => /\ io'.seen = now
              /\ periodical'.m_prev = now
              /\ p_calls' = 1)
     /\ (op' = "PeriodicalBaseAct" /\ b_calls' >= 1
           => /\ io'.seen = now
              /\ base'.m_prev = now
              /\ b_calls' = 1)]_vars

\* the Periodical fired, its action called the gate again and found it shut
C19_Witness ==
  /\ op = "PeriodicalAct"
  /\ io = [kind |-> "action", act |-> "reenter", seen |-> now, thrown |-> FALSE]
  /\ p_calls = 1
  /\ periodical.m_prev = now
  /\ now > 0

Armed(limit) ==
  /\ io.kind = "arm"
  /\ timer.m_timeoutMs > 0
  /\ timer.m_timeoutMs <= limit

Repeats(limit) ==
  []<>(Armed(limit) /\ timer.m_mode = "Periodic" => op = "expired" /\ ret)

OnceThenIdle(limit) ==
  <>[](Armed(limit) /\ timer.m_mode = "OneShot"
         => ~timer.m_running /\ t_oneShot = 1)

\* C20 as stated: started once with any timeout above zero and polled at
\* every clock value, a Periodic timer reports expiry infinitely often and a
\* OneShot timer eventually reports once and is idle from then on.
C20_Liveness ==
  /\ Repeats(Modulus - 1)
  /\ OnceThenIdle(Modulus - 1)

\* C20: the same, for every timeout above zero and below the largest value
\* of the counter (the largest value can never be exceeded by an elapsed time).
C20_LivenessBelowMax ==
  /\ Repeats(Modulus - 2)
  /\ OnceThenIdle(Modulus - 2)

\* a Periodic timer started with timeout 1 reports again four clock values
\* after its start, start() not having been called since
C20_Witness ==
  /\ op = "expired"
  /\ ret
  /\ timer.m_mode = "Periodic"
  /\ timer.m_running
  /\ io.kind = "arm"
  /\ io.arg = 1
  /\ Sub(now, io.at) = 4

TypeOK ==
  /\ now \in ClockValues
  /\ timer.m_timerLastMs \in ClockValues
  /\ periodical.m_prev \in ClockValues
  /\ base.m_prev \in ClockValues
  /\ ret \in BOOLEAN
  /\ t_since \in 0 .. MaxElapsed
====
